---------------------------- MODULE Spec2Model ----------------------------
(***************************************************************************)
(* boxman: an HTTP front end that lists active systemd services and        *)
(* renders systemd unit files.  Go strings are TLA+ strings; the Go        *)
(* standard-library calls the code makes (strings.*, path/filepath.*,      *)
(* bufio.ScanLines) are operators that compute what the library computes.  *)
(***************************************************************************)
EXTENDS Integers, Sequences, FiniteSets

VARIABLES
    alive,      \* the server process is running (log.Fatalf has not exited it)
    served,     \* number of HTTP requests handled so far
    req,        \* the request handled last
    resp,       \* the response written last
    pc,         \* position of a direct library call: "idle", "built", ...
    pkg,        \* package a direct library call goes to: "system" or "systemd"
    args,       \* arguments and environment of the direct library call
    cfg,        \* SystemdServiceConfig returned by the last Build
    text,       \* result of the last ToString
    services    \* []Service returned by the last GetSystemDServices

vars == <<alive, served, req, resp, pc, pkg, args, cfg, text, services>>

(***************************************************************************)
(* Bounds of the model.                                                    *)
(***************************************************************************)
MaxRequests == 2    \* HTTP requests in one run of the server
MaxLines == 2       \* lines of systemctl output
MaxFields == 5      \* whitespace-separated fields on one line
MaxRestLen == 3     \* characters after "~/" in a base directory
MaxFormLen == 2     \* characters of the form field path

(***************************************************************************)
(* Go standard library, as used by the code.                               *)
(***************************************************************************)
At(s, i) == SubSeq(s, i, i)

\* strings.HasPrefix
HasPrefix(s, prefix) ==
    /\ Len(s) >= Len(prefix)
    /\ SubSeq(s, 1, Len(prefix)) = prefix

\* strings.Contains
Contains(s, substr) ==
    \E i \in 1..(Len(s) - Len(substr) + 1) :
        SubSeq(s, i, i + Len(substr) - 1) = substr

\* unicode.IsSpace, on the characters the model uses
IsSpace(c) == c \in {" ", "\t", "\n", "\r"}

\* strings.TrimSpace
RECURSIVE TrimLeft(_)
TrimLeft(s) ==
    IF Len(s) > 0 /\ IsSpace(At(s, 1)) THEN TrimLeft(SubSeq(s, 2, Len(s))) ELSE s

RECURSIVE TrimRight(_)
TrimRight(s) ==
    IF Len(s) > 0 /\ IsSpace(At(s, Len(s)))
    THEN TrimRight(SubSeq(s, 1, Len(s) - 1)) ELSE s

TrimSpace(s) == TrimRight(TrimLeft(s))

\* strings.Fields: the maximal runs of non-space characters, in order.
\* i is the next position to read, start the first position of the field
\* being read (0 when between fields).
RECURSIVE FieldsFrom(_, _, _, _)
FieldsFrom(s, i, start, acc) ==
    IF i > Len(s)
    THEN IF start > 0 THEN Append(acc, SubSeq(s, start, Len(s))) ELSE acc
    ELSE IF IsSpace(At(s, i))
         THEN FieldsFrom(s, i + 1, 0,
                         IF start > 0 THEN Append(acc, SubSeq(s, start, i - 1))
                                      ELSE acc)
         ELSE FieldsFrom(s, i + 1, IF start > 0 THEN start ELSE i, acc)

Fields(s) == FieldsFrom(s, 1, 0, <<>>)

\* bufio.ScanLines over the whole output: each line without its end-of-line
\* marker (an optional "\r" before the "\n" is dropped); a final line
\* without "\n" is still returned when it is non-empty.
DropCR(s) ==
    IF Len(s) > 0 /\ At(s, Len(s)) = "\r" THEN SubSeq(s, 1, Len(s) - 1) ELSE s

RECURSIVE ScanFrom(_, _, _, _)
ScanFrom(s, i, start, acc) ==
    IF i > Len(s)
    THEN IF start <= Len(s) THEN Append(acc, DropCR(SubSeq(s, start, Len(s))))
                            ELSE acc
    ELSE IF At(s, i) = "\n"
         THEN ScanFrom(s, i + 1, i + 1, Append(acc, DropCR(SubSeq(s, start, i - 1))))
         ELSE ScanFrom(s, i + 1, start, acc)

ScanLines(s) == ScanFrom(s, 1, 1, <<>>)

\* path/filepath.IsAbs (Unix)
IsAbs(path) == HasPrefix(path, "/")

\* path/filepath.Clean (Unix).  r is the next position to read, out the
\* output written so far, dotdot the length of the prefix of out that ".."
\* may not remove.
RECURSIVE BackUp(_, _, _)
BackUp(out, w, dotdot) ==
    IF w > dotdot /\ At(out, w + 1) # "/"
    THEN BackUp(out, w - 1, dotdot) ELSE SubSeq(out, 1, w)

RECURSIVE ElemEnd(_, _)
ElemEnd(path, r) ==
    IF r <= Len(path) /\ At(path, r) # "/" THEN ElemEnd(path, r + 1) ELSE r

RECURSIVE CleanLoop(_, _, _, _, _)
CleanLoop(path, rooted, r, out, dotdot) ==
    LET n == Len(path) IN
    IF r > n THEN out
    ELSE IF At(path, r) = "/"
    THEN CleanLoop(path, rooted, r + 1, out, dotdot)
    ELSE IF At(path, r) = "." /\ (r = n \/ At(path, r + 1) = "/")
    THEN CleanLoop(path, rooted, r + 1, out, dotdot)
    ELSE IF At(path, r) = "." /\ At(path, r + 1) = "."
            /\ (r + 1 = n \/ At(path, r + 2) = "/")
    THEN IF Len(out) > dotdot
         THEN CleanLoop(path, rooted, r + 2,
                        BackUp(out, Len(out) - 1, dotdot), dotdot)
         ELSE IF ~rooted
         THEN LET o == (IF Len(out) > 0 THEN out \o "/" ELSE out) \o ".."
              IN  CleanLoop(path, rooted, r + 2, o, Len(o))
         ELSE CleanLoop(path, rooted, r + 2, out, dotdot)
    ELSE LET o == IF (rooted /\ Len(out) # 1) \/ (~rooted /\ Len(out) # 0)
                  THEN out \o "/" ELSE out
             e == ElemEnd(path, r)
         IN  CleanLoop(path, rooted, e, o \o SubSeq(path, r, e - 1), dotdot)

Clean(path) ==
    IF path = "" THEN "."
    ELSE LET rooted == At(path, 1) = "/"
             out == IF rooted THEN CleanLoop(path, TRUE, 2, "/", 1)
                              ELSE CleanLoop(path, FALSE, 1, "", 0)
         IN  IF out = "" THEN "." ELSE out

\* strings.Join(elem, "/")
RECURSIVE JoinSlash(_)
JoinSlash(elem) ==
    IF Len(elem) = 0 THEN ""
    ELSE IF Len(elem) = 1 THEN elem[1]
    ELSE elem[1] \o "/" \o JoinSlash(Tail(elem))

\* path/filepath.Join (Unix): from the first non-empty element on, the
\* elements joined by "/" and cleaned; "" when every element is empty.
RECURSIVE Join(_)
Join(elem) ==
    IF Len(elem) = 0 THEN ""
    ELSE IF elem[1] # "" THEN Clean(JoinSlash(elem))
    ELSE Join(Tail(elem))

\* path/filepath.Abs (Unix).  wd is the result of os.Getwd: [ok, val].
\* On a Getwd error Abs returns "" (the caller drops the error).
Abs(path, wd) ==
    IF IsAbs(path) THEN Clean(path)
    ELSE IF ~wd.ok THEN ""
    ELSE Join(<<wd.val, path>>)


\* fmt.Sprintf("%d", n)
Digit(d) == SubSeq("0123456789", d + 1, d + 1)

RECURSIVE Digits(_)
Digits(n) == IF n < 10 THEN Digit(n) ELSE Digits(n \div 10) \o Digit(n % 10)

Itoa(n) == IF n < 0 THEN "-" \o Digits(-n) ELSE Digits(n)

(***************************************************************************)
(* Package systemd: unit-file configuration (src/systemd/newService.go).   *)
(* opts is [isNil |-> TRUE] for a nil pointer, otherwise a ConfigOptions   *)
(* record whose unset fields hold Go's zero values ("" and 0).  home is    *)
(* the result of os.UserHomeDir and wd that of os.Getwd: [ok, val].        *)
(***************************************************************************)
\* Mutant: the default restart policy is "on-failure".
MutSystemdDefaultOptions ==
    [isNil |-> FALSE, Type |-> "simple", User |-> "root", Group |-> "root",
     LimitNOFILE |-> 4096, Restart |-> "on-failure", RestartSec |-> "5s"]

SystemdDefaultOptions ==
    [isNil |-> FALSE, Type |-> "simple", User |-> "root", Group |-> "root",
     LimitNOFILE |-> 4096, Restart |-> "always", RestartSec |-> "5s"]

\* Mutant: the exec path is the base directory and the command concatenated,
\* not joined.
MutNewSystemdServiceConfig(serviceName, baseDir, execCommand, opts, home, wd) ==
    LET o == IF opts.isNil THEN SystemdDefaultOptions ELSE opts
        expanded == IF HasPrefix(baseDir, "~/") /\ home.ok
                    THEN Join(<<home.val, SubSeq(baseDir, 3, Len(baseDir))>>)
                    ELSE baseDir
        absDir == Abs(expanded, wd)
        logPath == Join(<<absDir, "logs", "service.log">>)
        execPath == absDir \o execCommand
        savePath == Join(<<"/lib/systemd/system", serviceName \o ".service">>)
    IN  [Description |-> serviceName \o " service",
         Type |-> o.Type,
         User |-> o.User,
         Group |-> o.Group,
         LimitNOFILE |-> o.LimitNOFILE,
         Restart |-> o.Restart,
         RestartSec |-> o.RestartSec,
         StandardOutput |-> "append:" \o logPath,
         StandardError |-> "append:" \o logPath,
         ExecStart |-> execPath,
         WantedBy |-> "multi-user.target",
         Path |-> savePath]

NewSystemdServiceConfig(serviceName, baseDir, execCommand, opts, home, wd) ==
    LET o == IF opts.isNil THEN SystemdDefaultOptions ELSE opts
        expanded == IF HasPrefix(baseDir, "~/") /\ home.ok
                    THEN Join(<<home.val, SubSeq(baseDir, 3, Len(baseDir))>>)
                    ELSE baseDir
        absDir == Abs(expanded, wd)
        logPath == Join(<<absDir, "logs", "service.log">>)
        execPath == Join(<<absDir, execCommand>>)
        savePath == Join(<<"/lib/systemd/system", serviceName \o ".service">>)
    IN  [Description |-> serviceName \o " service",
         Type |-> o.Type,
         User |-> o.User,
         Group |-> o.Group,
         LimitNOFILE |-> o.LimitNOFILE,
         Restart |-> o.Restart,
         RestartSec |-> o.RestartSec,
         StandardOutput |-> "append:" \o logPath,
         StandardError |-> "append:" \o logPath,
         ExecStart |-> execPath,
         WantedBy |-> "multi-user.target",
         Path |-> savePath]

\* SystemdServiceConfig.ToString of package systemd: [str, err]
ToString(c) ==
    [str |-> "[Unit]\n"
             \o "Description=" \o c.Description \o "\n\n"
             \o "[SystemdService]\n"
             \o "Type=" \o c.Type \o "\n"
             \o "User=" \o c.User \o "\n"
             \o "Group=" \o c.Group \o "\n"
             \o "LimitNOFILE=" \o Itoa(c.LimitNOFILE) \o "\n"
             \o "Restart=" \o c.Restart \o "\n"
             \o "RestartSec=" \o c.RestartSec \o "\n"
             \o "StandardOutput=" \o c.StandardOutput \o "\n"
             \o "StandardError=" \o c.StandardError \o "\n"
             \o "ExecStart=" \o c.ExecStart \o "\n\n"
             \o "[Install]\n"
             \o "WantedBy=" \o c.WantedBy \o "\n",
     err |-> "nil"]

(***************************************************************************)
(* Package system: the same, earlier (src/system/newService.go).           *)
(***************************************************************************)
SystemDefaultOptions ==
    [isNil |-> FALSE, Type |-> "simple", User |-> "root", Group |-> "root",
     LimitNOFILE |-> 4096, Restart |-> "always", RestartSec |-> "5s"]

NewServiceConfig(serviceName, baseDir, execCommand, opts, home, wd) ==
    LET o == IF opts.isNil THEN SystemDefaultOptions ELSE opts
        expanded == IF HasPrefix(baseDir, "~/") /\ home.ok
                    THEN Join(<<home.val, SubSeq(baseDir, 3, Len(baseDir))>>)
                    ELSE baseDir
        absDir == Abs(expanded, wd)
        logPath == Join(<<absDir, "logs", "service.log">>)
        execPath == Join(<<absDir, execCommand>>)
    IN  [Description |-> serviceName \o " service",
         Type |-> o.Type,
         User |-> o.User,
         Group |-> o.Group,
         LimitNOFILE |-> o.LimitNOFILE,
         Restart |-> o.Restart,
         RestartSec |-> o.RestartSec,
         StandardOutput |-> "append:" \o logPath,
         StandardError |-> "append:" \o logPath,
         ExecStart |-> execPath,
         WantedBy |-> "multi-user.target"]

\* SystemdServiceConfig.ToString of package system: a string, no error
SystemToString(c) ==
    "[Unit]\n"
    \o "Description=" \o c.Description \o "\n\n"
    \o "[Service]\n"
    \o "Type=" \o c.Type \o "\n"
    \o "User=" \o c.User \o "\n"
    \o "Group=" \o c.Group \o "\n"
    \o "LimitNOFILE=" \o Itoa(c.LimitNOFILE) \o "\n"
    \o "Restart=" \o c.Restart \o "\n"
    \o "RestartSec=" \o c.RestartSec \o "\n"
    \o "StandardOutput=" \o c.StandardOutput \o "\n"
    \o "StandardError=" \o c.StandardError \o "\n"
    \o "ExecStart=" \o c.ExecStart \o "\n\n"
    \o "[Install]\n"
    \o "WantedBy=" \o c.WantedBy \o "\n"

(***************************************************************************)
(* Listing of active services.  output is the combined output of           *)
(* systemctl; the loop reads it line by line.                              *)
(***************************************************************************)
\* Mutant: the sub state and the load state are taken from each other's
\* field.
MutNewService(fields) ==
    [Name |-> fields[1],
     Unit |-> fields[2],
     ActiveState |-> fields[3],
     SubState |-> IF Len(fields) > 4 THEN fields[5] ELSE "",
     LoadState |-> IF Len(fields) > 3 THEN fields[4] ELSE "",
     Path |-> "/etc/systemd/system/" \o fields[1] \o ".service"]

\* The Service built from the fields of one accepted line.
NewService(fields) ==
    [Name |-> fields[1],
     Unit |-> fields[2],
     ActiveState |-> fields[3],
     SubState |-> IF Len(fields) > 3 THEN fields[4] ELSE "",
     LoadState |-> IF Len(fields) > 4 THEN fields[5] ELSE "",
     Path |-> "/etc/systemd/system/" \o fields[1] \o ".service"]

\* Mutant: the name filter is not applied.
RECURSIVE MutScanLoopNoFilter(_, _, _, _)
MutScanLoopNoFilter(lines, i, partialName, svcs) ==
    IF i > Len(lines) THEN svcs
    ELSE LET line == lines[i]
             fields == Fields(line)
         IN  IF HasPrefix(line, "UNIT")
             THEN MutScanLoopNoFilter(lines, i + 1, partialName, svcs)
             ELSE IF Len(fields) < 3
             THEN MutScanLoopNoFilter(lines, i + 1, partialName, svcs)
             ELSE MutScanLoopNoFilter(lines, i + 1, partialName,
                                      Append(svcs, [Name |-> fields[1],
                                                    Unit |-> fields[2],
                                                    ActiveState |-> fields[3],
                                                    SubState |-> IF Len(fields) > 3 THEN fields[4] ELSE "",
                                                    LoadState |-> IF Len(fields) > 4 THEN fields[5] ELSE "",
                                                    Path |-> "/etc/systemd/system/" \o fields[1] \o ".service"]))

\* Mutant: a line with fewer than 3 fields ends the loop (break for continue).
RECURSIVE MutScanLoopBreak(_, _, _, _)
MutScanLoopBreak(lines, i, partialName, svcs) ==
    IF i > Len(lines) THEN svcs
    ELSE LET line == lines[i]
             fields == Fields(line)
         IN  IF HasPrefix(line, "UNIT")
             THEN MutScanLoopBreak(lines, i + 1, partialName, svcs)
             ELSE IF Len(fields) < 3
             THEN svcs
             ELSE IF partialName # "" /\ ~Contains(fields[1], partialName)
             THEN MutScanLoopBreak(lines, i + 1, partialName, svcs)
             ELSE MutScanLoopBreak(lines, i + 1, partialName,
                                   Append(svcs, [Name |-> fields[1],
                                                 Unit |-> fields[2],
                                                 ActiveState |-> fields[3],
                                                 SubState |-> IF Len(fields) > 3 THEN fields[4] ELSE "",
                                                 LoadState |-> IF Len(fields) > 4 THEN fields[5] ELSE "",
                                                 Path |-> "/etc/systemd/system/" \o fields[1] \o ".service"]))

\* The for scanner.Scan() loop of package systemd, from line i on.
RECURSIVE ScanLoop(_, _, _, _)
ScanLoop(lines, i, partialName, svcs) ==
    IF i > Len(lines) THEN svcs
    ELSE LET line == lines[i]
             fields == Fields(line)
         IN  IF HasPrefix(line, "UNIT")
             THEN ScanLoop(lines, i + 1, partialName, svcs)
             ELSE IF Len(fields) < 3
             THEN ScanLoop(lines, i + 1, partialName, svcs)
             ELSE IF partialName # "" /\ ~Contains(fields[1], partialName)
             THEN ScanLoop(lines, i + 1, partialName, svcs)
             ELSE ScanLoop(lines, i + 1, partialName,
                           Append(svcs, NewService(fields)))

\* systemd.GetSystemDServices after a successful systemctl run
GetSystemDServices(output, partialName) ==
    ScanLoop(ScanLines(output), 1, partialName, <<>>)

\* The same loop in package system.
SystemNewService(fields) ==
    [Name |-> fields[1],
     Unit |-> fields[2],
     ActiveState |-> fields[3],
     SubState |-> IF Len(fields) > 3 THEN fields[4] ELSE "",
     LoadState |-> IF Len(fields) > 4 THEN fields[5] ELSE "",
     Path |-> "/etc/systemd/system/" \o fields[1] \o ".service"]

RECURSIVE SystemScanLoop(_, _, _, _)
SystemScanLoop(lines, i, partialName, svcs) ==
    IF i > Len(lines) THEN svcs
    ELSE LET line == lines[i]
             fields == Fields(line)
         IN  IF HasPrefix(line, "UNIT")
             THEN SystemScanLoop(lines, i + 1, partialName, svcs)
             ELSE IF Len(fields) < 3
             THEN SystemScanLoop(lines, i + 1, partialName, svcs)
             ELSE IF partialName # "" /\ ~Contains(fields[1], partialName)
             THEN SystemScanLoop(lines, i + 1, partialName, svcs)
             ELSE SystemScanLoop(lines, i + 1, partialName,
                                 Append(svcs, SystemNewService(fields)))

\* system.GetSystemDServices after a successful systemctl run
SystemGetSystemDServices(output, partialName) ==
    SystemScanLoop(ScanLines(output), 1, partialName, <<>>)


(***************************************************************************)
(* Inputs.                                                                 *)
(***************************************************************************)
\* All strings of at most n characters over an alphabet.
RECURSIVE StringsOver(_, _)
StringsOver(alphabet, n) ==
    IF n = 0 THEN {""}
    ELSE LET shorter == StringsOver(alphabet, n - 1)
         IN  shorter \cup {s \o c : s \in shorter, c \in alphabet}

Ok(v) == [ok |-> TRUE, val |-> v]
Failed == [ok |-> FALSE, val |-> ""]

ServiceNames == {"", "pocketbase"}
Rests == StringsOver({"/", ".", "p"}, MaxRestLen) \cup {"pb", "pb/"}
BaseDirs == {"~/" \o r : r \in Rests} \cup {"", "~", "pb", "/srv/pb"}
ExecCommands == {"", "pocketbase serve x.com", "../x"}
Homes == {Failed, Ok("/root"), Ok("/"), Ok("rel")}
\* os.Getwd is taken to succeed: the working directory of a running
\* process exists.
Wds == {Ok("/w"), Ok("/")}

NilOptions == [isNil |-> TRUE]
ZeroOptions ==
    [isNil |-> FALSE, Type |-> "", User |-> "", Group |-> "",
     LimitNOFILE |-> 0, Restart |-> "", RestartSec |-> ""]
\* &ConfigOptions{User: "pocketbase", Group: "pocketbase"}, as in main.go
HandlerOptions == [ZeroOptions EXCEPT !.User = "pocketbase", !.Group = "pocketbase"]
FullOptions ==
    [isNil |-> FALSE, Type |-> "forking", User |-> "www", Group |-> "web",
     LimitNOFILE |-> 1024, Restart |-> "on-failure", RestartSec |-> "1s"]
OptionSets == {NilOptions, ZeroOptions, HandlerOptions, FullOptions}

\* Lines of systemctl output: a unit name followed by further columns,
\* written tightly or with extra whitespace around the fields; one output
\* is written in one of the two ways.
UnitNames == {"UNIT", "sshd"}
Columns == <<"loaded", "active", "running", "OpenSSH", "server">>
Column(i) == IF i <= Len(Columns) THEN Columns[i] ELSE "daemon"

RECURSIVE TightLine(_, _, _)
TightLine(name, n, i) ==
    IF n = 0 THEN ""
    ELSE IF i >= n THEN name
    ELSE TightLine(name, n, i + 1) \o " " \o Column(n - i)

RECURSIVE LooseLine(_, _, _)
LooseLine(name, n, i) ==
    IF n = 0 THEN "  "
    ELSE IF i >= n THEN "  " \o name
    ELSE LooseLine(name, n, i + 1) \o " \t" \o Column(n - i) \o
         (IF i = 1 THEN " " ELSE "")

TightLines == {TightLine(name, n, 1) : name \in UnitNames, n \in 0..MaxFields}
LooseLines == {LooseLine(name, n, 1) : name \in UnitNames, n \in 0..MaxFields}

\* The outputs of at most n lines drawn from a set of lines.
RECURSIVE OutputsOf(_, _)
OutputsOf(lines, n) ==
    IF n = 0 THEN {""}
    ELSE LET shorter == OutputsOf(lines, n - 1)
         IN  shorter \cup {o \o l \o "\n" : o \in shorter, l \in lines}

Outputs == OutputsOf(TightLines, MaxLines) \cup OutputsOf(LooseLines, MaxLines)
PartialNames == {"", "ssh"}

None == [none |-> TRUE]

(***************************************************************************)
(* Direct calls of the configuration builder, in either package.           *)
(***************************************************************************)
InitBuild ==
    /\ args \in [serviceName : ServiceNames, baseDir : BaseDirs,
                 execCommand : ExecCommands, opts : OptionSets,
                 home : Homes, wd : Wds]
    /\ pc = "idle"
    /\ pkg = "none"
    /\ cfg = None
    /\ text = None
    /\ services = <<>>
    /\ alive = TRUE
    /\ served = 0
    /\ req = None
    /\ resp = None

BuildSystemd ==
    /\ pc = "idle"
    /\ pc' = "built"
    /\ pkg' = "systemd"
    /\ cfg' = NewSystemdServiceConfig(args.serviceName, args.baseDir,
                                      args.execCommand, args.opts,
                                      args.home, args.wd)
    /\ UNCHANGED <<alive, served, req, resp, args, text, services>>

BuildSystem ==
    /\ pc = "idle"
    /\ pc' = "built"
    /\ pkg' = "system"
    /\ cfg' = NewServiceConfig(args.serviceName, args.baseDir,
                               args.execCommand, args.opts,
                               args.home, args.wd)
    /\ UNCHANGED <<alive, served, req, resp, args, text, services>>

SerializeSystemd ==
    /\ pc = "built"
    /\ pkg = "systemd"
    /\ pc' = "serialized"
    /\ text' = ToString(cfg)
    /\ UNCHANGED <<alive, served, req, resp, pkg, args, cfg, services>>

SerializeSystem ==
    /\ pc = "built"
    /\ pkg = "system"
    /\ pc' = "serialized"
    /\ text' = [str |-> SystemToString(cfg)]
    /\ UNCHANGED <<alive, served, req, resp, pkg, args, cfg, services>>

NextBuild == BuildSystemd \/ BuildSystem \/ SerializeSystemd \/ SerializeSystem

SpecBuild == InitBuild /\ [][NextBuild]_vars

(***************************************************************************)
(* Direct calls of the service lister, in either package.  The systemctl   *)
(* run either fails (log.Fatalf exits the process) or yields args.output.  *)
(***************************************************************************)
InitList ==
    /\ args \in [output : Outputs, partialName : PartialNames]
    /\ pc = "idle"
    /\ pkg = "none"
    /\ cfg = None
    /\ text = None
    /\ services = <<>>
    /\ alive = TRUE
    /\ served = 0
    /\ req = None
    /\ resp = None

ListSystemd ==
    /\ pc = "idle"
    /\ pkg' = "systemd"
    /\ \E cmdErr \in BOOLEAN :
          IF cmdErr
          THEN /\ alive' = FALSE
               /\ pc' = "exited"
               /\ UNCHANGED services
          ELSE /\ services' = GetSystemDServices(args.output, args.partialName)
               /\ pc' = "listed"
               /\ UNCHANGED alive
    /\ UNCHANGED <<served, req, resp, args, cfg, text>>

ListSystem ==
    /\ pc = "idle"
    /\ pkg' = "system"
    /\ \E cmdErr \in BOOLEAN :
          IF cmdErr
          THEN /\ alive' = FALSE
               /\ pc' = "exited"
               /\ UNCHANGED services
          ELSE /\ services' = SystemGetSystemDServices(args.output, args.partialName)
               /\ pc' = "listed"
               /\ UNCHANGED alive
    /\ UNCHANGED <<served, req, resp, args, cfg, text>>

NextList == ListSystemd \/ ListSystem

SpecList == InitList /\ [][NextList]_vars


(***************************************************************************)
(* The HTTP server of src/main.go.  args holds the environment of the      *)
(* process ($HOME and the working directory), fixed when it starts.  A     *)
(* request parameter is Missing or Present(v); echo's QueryParam and       *)
(* FormValue return "" for a missing one.                                  *)
(***************************************************************************)
Missing == [present |-> FALSE, val |-> ""]
Present(v) == [present |-> TRUE, val |-> v]

\* c.QueryParam / c.FormValue
FormValue(param) == IF param.present THEN param.val ELSE ""

QueryNames == {Missing} \cup {Present(n) : n \in PartialNames}
FormNames == {Missing, Present(""), Present("pocketbase")}
FormPaths ==
    {Missing} \cup {Present(p) : p \in StringsOver({"~", "/", " ", "a"}, MaxFormLen)}
ServerOutputs ==
    {"",
     "UNIT loaded active running OpenSSH\nsshd loaded active running OpenSSH\n",
     "  cron \tloaded \tactive \n\nsshd loaded\n",
     "sshd loaded active running\ncron loaded active running OpenSSH\n"}

\* e.GET("/", ...)
RootHandler == [status |-> 200, kind |-> "text", body |-> "Hello, World!"]

\* e.GET("/services", ...) when systemctl ran successfully
ServicesHandler(name, output) ==
    [status |-> 200, kind |-> "json",
     body |-> GetSystemDServices(output, FormValue(name))]

\* e.GET("/new", ...)
NewHandler(home, wd) ==
    LET config == NewSystemdServiceConfig("pocketbase", "~/pb",
                                          "pocketbase serve yourdomain.com",
                                          HandlerOptions, home, wd)
    IN  [status |-> 200, kind |-> "text", body |-> ToString(config).str]

\* Mutant: the path is checked before the name.
MutServiceNewHandler(formName, formPath, home, wd) ==
    LET name == FormValue(formName)
        path == FormValue(formPath)
        trimmed == TrimSpace(path)
        config == NewSystemdServiceConfig("pocketbase", "~/pb",
                                          "pocketbase serve yourdomain.com",
                                          HandlerOptions, home, wd)
    IN  IF path = ""
        THEN [status |-> 400, kind |-> "text", body |-> "path is required"]
        ELSE IF name = ""
        THEN [status |-> 400, kind |-> "text", body |-> "name is required"]
        ELSE IF Len(trimmed) >= 2 /\ SubSeq(trimmed, 1, 2) # "~/"
        THEN [status |-> 400, kind |-> "text",
              body |-> "path must be absolute, try ~/path/to/service"]
        ELSE [status |-> 200, kind |-> "text", body |-> ToString(config).str]

\* e.POST("/service/new", ...)
ServiceNewHandler(formName, formPath, home, wd) ==
    LET name == FormValue(formName)
        path == FormValue(formPath)
        trimmed == TrimSpace(path)
        config == NewSystemdServiceConfig("pocketbase", "~/pb",
                                          "pocketbase serve yourdomain.com",
                                          HandlerOptions, home, wd)
    IN  IF name = ""
        THEN [status |-> 400, kind |-> "text", body |-> "name is required"]
        ELSE IF path = ""
        THEN [status |-> 400, kind |-> "text", body |-> "path is required"]
        ELSE IF Len(trimmed) >= 2 /\ SubSeq(trimmed, 1, 2) # "~/"
        THEN [status |-> 400, kind |-> "text",
              body |-> "path must be absolute, try ~/path/to/service"]
        ELSE [status |-> 200, kind |-> "text", body |-> ToString(config).str]

\* The response r written for request number id.
Written(id, r) == [id |-> id, status |-> r.status, kind |-> r.kind, body |-> r.body]

Init ==
    /\ args \in [home : {Failed, Ok("/root")}, wd : {Ok("/w")}]
    /\ alive = TRUE
    /\ served = 0
    /\ req = [route |-> "none"]
    /\ resp = [id |-> 0, status |-> 0, kind |-> "none", body |-> ""]
    /\ pc = "serving"
    /\ pkg = "systemd"
    /\ cfg = None
    /\ text = None
    /\ services = <<>>

GetRoot ==
    /\ alive
    /\ served < MaxRequests
    /\ served' = served + 1
    /\ req' = [route |-> "GET /"]
    /\ resp' = Written(served + 1, RootHandler)
    /\ UNCHANGED <<alive, pc, pkg, args, cfg, text, services>>

\* Mutant: a failed systemctl run is answered 500 and the server lives on.
MutGetServicesFatal ==
    /\ alive
    /\ served < MaxRequests
    /\ served' = served + 1
    /\ \E name \in QueryNames :
          req' = [route |-> "GET /services", name |-> name, cmdErr |-> TRUE,
                  output |-> ""]
    /\ resp' = [id |-> served + 1, status |-> 500, kind |-> "text",
                body |-> "Could not run systemctl"]
    /\ UNCHANGED <<alive, pc, pkg, args, cfg, text, services>>

\* systemctl fails: log.Fatalf exits the process before anything is written.
GetServicesFatal ==
    /\ alive
    /\ served < MaxRequests
    /\ served' = served + 1
    /\ \E name \in QueryNames :
          req' = [route |-> "GET /services", name |-> name, cmdErr |-> TRUE,
                  output |-> ""]
    /\ alive' = FALSE
    /\ pc' = "exited"
    /\ UNCHANGED <<resp, pkg, args, cfg, text, services>>

GetServices ==
    /\ alive
    /\ served < MaxRequests
    /\ served' = served + 1
    /\ \E name \in QueryNames, output \in ServerOutputs :
          /\ req' = [route |-> "GET /services", name |-> name, cmdErr |-> FALSE,
                     output |-> output]
          /\ resp' = Written(served + 1, ServicesHandler(name, output))
    /\ UNCHANGED <<alive, pc, pkg, args, cfg, text, services>>

GetNew ==
    /\ alive
    /\ served < MaxRequests
    /\ served' = served + 1
    /\ req' = [route |-> "GET /new"]
    /\ resp' = Written(served + 1, NewHandler(args.home, args.wd))
    /\ UNCHANGED <<alive, pc, pkg, args, cfg, text, services>>

PostServiceNew ==
    /\ alive
    /\ served < MaxRequests
    /\ served' = served + 1
    /\ \E formName \in FormNames, formPath \in FormPaths :
          /\ req' = [route |-> "POST /service/new", name |-> formName,
                     path |-> formPath]
          /\ resp' = Written(served + 1,
                             ServiceNewHandler(formName, formPath,
                                               args.home, args.wd))
    /\ UNCHANGED <<alive, pc, pkg, args, cfg, text, services>>

Next == GetRoot \/ GetServicesFatal \/ GetServices \/ GetNew \/ PostServiceNew

Spec == Init /\ [][Next]_vars


(***************************************************************************)
(* Properties.                                                             *)
(***************************************************************************)
Built == pc \in {"built", "serialized"}

\* C1: after Build returns, every string field of the configuration is
\* non-empty, whatever the inputs and whatever the overrides (absent, fully
\* or partially populated): defaults fill what an override leaves unset.
C1_AllStringFieldsNonEmpty ==
    Built =>
        /\ cfg.Description # ""
        /\ cfg.Type # ""
        /\ cfg.User # ""
        /\ cfg.Group # ""
        /\ cfg.Restart # ""
        /\ cfg.RestartSec # ""
        /\ cfg.StandardOutput # ""
        /\ cfg.StandardError # ""
        /\ cfg.ExecStart # ""
        /\ cfg.WantedBy # ""
        /\ (pkg = "systemd" => cfg.Path # "")

IsPost == req.route = "POST /service/new" /\ resp.id = served
IsUnitFile(body) == HasPrefix(body, "[Unit]\n")

\* C2: POST /service/new with a non-empty name and a path that, once
\* trimmed, does not begin with "~/" is answered 400 and renders no unit
\* file, paths shorter than two characters included.
C2_NonHomePathRejected ==
    (/\ IsPost
     /\ FormValue(req.name) # ""
     /\ ~HasPrefix(TrimSpace(FormValue(req.path)), "~/"))
    => (resp.status = 400 /\ ~IsUnitFile(resp.body))

\* C3: POST /service/new is answered 400 when name is missing or empty,
\* whatever path is, and 400 when name is non-empty and path is missing or
\* empty; the name check comes first, and no unit file is in the response.
C3_RequiredFields ==
    IsPost =>
        /\ FormValue(req.name) = ""
              => (/\ resp.status = 400
                  /\ resp.body = "name is required"
                  /\ ~IsUnitFile(resp.body))
        /\ (FormValue(req.name) # "" /\ FormValue(req.path) = "")
              => (/\ resp.status = 400
                  /\ resp.body = "path is required"
                  /\ ~IsUnitFile(resp.body))

C3_Witness ==
    /\ IsPost
    /\ ~req.name.present
    /\ req.path = Present("~/")
    /\ resp.status = 400
    /\ resp.body = "name is required"

\* The lister of the package the last call went to.
ListOf(p, output, partialName) ==
    IF p = "systemd" THEN GetSystemDServices(output, partialName)
                     ELSE SystemGetSystemDServices(output, partialName)

\* A line that is no header and has at least 3 fields.
IsRecordLine(line) == ~HasPrefix(line, "UNIT") /\ Len(Fields(line)) >= 3

RECURSIVE Unlines(_)
Unlines(lines) ==
    IF Len(lines) = 0 THEN "" ELSE lines[1] \o "\n" \o Unlines(Tail(lines))

\* C4: List(filter) is exactly the subsequence of List("") whose names
\* contain the filter, in the same order, and List("") has one record for
\* every non-header line with at least 3 fields.
C4_FilterIsSubsequence ==
    pc = "listed" =>
        LET all == ListOf(pkg, args.output, "")
            Matches(r) == Contains(r.Name, args.partialName)
        IN  /\ services = SelectSeq(all, Matches)
            /\ Len(all) = Len(SelectSeq(ScanLines(args.output), IsRecordLine))
            /\ args.partialName = "" => services = all

C4_Witness ==
    /\ pc = "listed"
    /\ args.partialName = "ssh"
    /\ Len(services) = 1
    /\ Len(ListOf(pkg, args.output, "")) = 2

C6_RecordFields ==
    pc = "listed" =>
        LET Accepted(line) ==
                /\ IsRecordLine(line)
                /\ Contains(Fields(line)[1], args.partialName)
            acc == SelectSeq(ScanLines(args.output), Accepted)
        IN  /\ Len(services) = Len(acc)
            /\ \A k \in 1..Len(acc) :
                  LET f == Fields(acc[k])
                      r == services[k]
                  IN  /\ r.Name = f[1]
                      /\ r.Unit = f[2]
                      /\ r.ActiveState = f[3]
                      /\ r.SubState = (IF Len(f) > 3 THEN f[4] ELSE "")
                      /\ r.LoadState = (IF Len(f) > 4 THEN f[5] ELSE "")
                      /\ r.Path = "/etc/systemd/system/" \o f[1] \o ".service"

C6_Witness ==
    /\ pc = "listed"
    /\ Len(services) = 2
    /\ services[1].Name = "sshd"
    /\ services[1].SubState = ""
    /\ services[2].Name = "UNIT"
    /\ services[2].LoadState # ""

\* C7: Build with overrides absent yields serviceType "simple", user and
\* group "root", fileDescriptorLimit 4096, restartPolicy "always",
\* restartDelay "5s" and installTarget "multi-user.target", in both packages.
C7_DefaultsWhenNil ==
    (Built /\ args.opts.isNil) =>
        /\ cfg.Type = "simple"
        /\ cfg.User = "root"
        /\ cfg.Group = "root"
        /\ cfg.LimitNOFILE = 4096
        /\ cfg.Restart = "always"
        /\ cfg.RestartSec = "5s"
        /\ cfg.WantedBy = "multi-user.target"

C7_Witness ==
    /\ pc = "built"
    /\ pkg = "system"
    /\ args.opts.isNil
    /\ args.baseDir = "/srv/pb"
    /\ cfg.LimitNOFILE = 4096

\* C8: Serialize emits the sections Unit, Service, Install in this order,
\* one blank line between consecutive sections, each expected key exactly
\* once in its section in the fixed order; its error result is always nil.
C8_SectionsAndKeys ==
    pc = "serialized" =>
        LET l == ScanLines(text.str)
            keys == <<"Type=", "User=", "Group=", "LimitNOFILE=", "Restart=",
                      "RestartSec=", "StandardOutput=", "StandardError=",
                      "ExecStart=">>
        IN  /\ Len(l) = 16
            /\ l[1] = "[Unit]"
            /\ HasPrefix(l[2], "Description=")
            /\ l[3] = ""
            /\ l[4] = "[Service]"
            /\ \A i \in 1..Len(keys) : HasPrefix(l[4 + i], keys[i])
            /\ l[14] = ""
            /\ l[15] = "[Install]"
            /\ HasPrefix(l[16], "WantedBy=")
            /\ (pkg = "systemd" => text.err = "nil")

\* <home>/rest of claim C9: the cleaned join of the home directory and rest.
HomeRest == Join(<<args.home.val, SubSeq(args.baseDir, 3, Len(args.baseDir))>>)

\* C9 as stated: for every base directory "~/" + rest and every home
\* directory, execPath is the path join of <home>/rest and execCommand and
\* both targets are "append:" + <home>/rest + "/logs/service.log".
C9_HomeExpansion_AsStated ==
    (Built /\ HasPrefix(args.baseDir, "~/") /\ args.home.ok) =>
        /\ cfg.ExecStart = Join(<<HomeRest, args.execCommand>>)
        /\ cfg.StandardOutput = "append:" \o HomeRest \o "/logs/service.log"
        /\ cfg.StandardError = "append:" \o HomeRest \o "/logs/service.log"

\* C9, amended: the same for an absolute home directory, except that when
\* <home>/rest is the root directory the targets are
\* "append:/logs/service.log"; and the example of the specification.
C9_HomeExpansion ==
    (Built /\ HasPrefix(args.baseDir, "~/") /\ args.home.ok
           /\ IsAbs(args.home.val)) =>
        LET dir == IF HomeRest = "/" THEN "" ELSE HomeRest
        IN  /\ cfg.ExecStart = Join(<<HomeRest, args.execCommand>>)
            /\ cfg.StandardOutput = "append:" \o dir \o "/logs/service.log"
            /\ cfg.StandardError = "append:" \o dir \o "/logs/service.log"
            /\ (/\ args.baseDir = "~/pb"
                /\ args.execCommand = "pocketbase serve x.com"
                /\ args.home.val = "/root")
               => (/\ cfg.ExecStart = "/root/pb/pocketbase serve x.com"
                   /\ cfg.StandardOutput = "append:/root/pb/logs/service.log"
                   /\ cfg.StandardError = "append:/root/pb/logs/service.log")

C9_Witness ==
    /\ pc = "built"
    /\ args.baseDir = "~/pb"
    /\ args.execCommand = "pocketbase serve x.com"
    /\ args.home = Ok("/root")
    /\ cfg.ExecStart = "/root/pb/pocketbase serve x.com"

\* C10: a failed systemctl run ends the process: that request gets no
\* response and no later request is served; a successful run is answered
\* and leaves the server serving.
C10_FatalOrServed ==
    /\ [](~alive => (/\ req.route = "GET /services"
                     /\ req.cmdErr
                     /\ resp.id < served
                     /\ ~ENABLED Next))
    /\ [][/\ (req'.route = "GET /services" /\ served' # served /\ req'.cmdErr)
             => (~alive' /\ resp' = resp)
          /\ (req'.route = "GET /services" /\ served' # served /\ ~req'.cmdErr)
             => (/\ alive'
                 /\ resp'.id = served'
                 /\ resp'.status = 200
                 /\ resp'.body = GetSystemDServices(req'.output,
                                                    FormValue(req'.name)))
          /\ ~alive => UNCHANGED <<served, resp>>]_vars

C10_Witness ==
    /\ ~alive
    /\ served = 2
    /\ resp.id = 1
    /\ req.route = "GET /services"

=============================================================================
